---- MODULE Spec2Model ----
(***************************************************************************)
(* Model of the event follow-up messaging scripts:                         *)
(*   personalized_messaging.py  (PersonalizedMessenger)                    *)
(*   automation_bonus.py        (EventAutomation, EmailAutomation,         *)
(*                               TelegramAutomation)                       *)
(*                                                                         *)
(* Strings.  A Python str is modelled as a sequence of indivisible chunks  *)
(* of characters.  The chunk " " is whitespace; every other chunk begins   *)
(* and ends with a non-whitespace character.  A template literal of the    *)
(* source is one chunk.  str.lower, str.strip and str.split are computed   *)
(* on these sequences.  The emoji of the source literals are written       *)
(* :tada: in the chunks.                                                   *)
(*                                                                         *)
(* Cells.  A cell of a pandas row that holds text is                       *)
(*   [kind |-> "str", s |-> chunks]   a str,                               *)
(*   NaN                              the float nan read_csv gives for an  *)
(*                                    empty cell,                          *)
(*   None                             Python None (a row built by hand).   *)
(***************************************************************************)
EXTENDS Integers, Sequences, FiniteSets, TLC

\* df          the rows of cleaned_output.csv (self.df of every object)
\* readable    whether pd.read_csv can read that file
\* messenger   "none" before PersonalizedMessenger is constructed, then "ready"
\* messages    PersonalizedMessenger.messages
\* csv_file    personalized_messages.csv as save_messages_csv left it
\* automation  the EventAutomation object: its state and its self.messages
\* row         the row of the last call of generate_personalized_message
\* out         what the last call returned, raised, wrote and sent
\* queue_file  telegram_queue.json as create_message_queue left it
VARIABLES df, readable, messenger, messages, csv_file, automation, row, out, queue_file

vars == <<df, readable, messenger, messages, csv_file, automation, row, out, queue_file>>

-----------------------------------------------------------------------------
(* Bounds *)

MaxContacts == 2
MaxNameLen == 3
MaxTitleLen == 2

-----------------------------------------------------------------------------
(* Cells and strings *)

NaN == [kind |-> "NaN", s |-> <<>>]

None == [kind |-> "None", s |-> <<>>]

Str(s) == [kind |-> "str", s |-> s]

SeqsUpTo(S, n) == UNION {[1..k -> S] : k \in 0..n}

IsSpace(c) == c = " "

PS == "P.S. We'd love to connect with you on LinkedIn to keep you updated on future opportunities!"

ps_lower == "p.s. we'd love to connect with you on linkedin to keep you updated on future opportunities!"

\* str.lower on one chunk
lower_chunk(c) ==
  CASE c = "Engineer" -> "engineer"
    [] c = "Unemployed" -> "unemployed"
    [] c = "Jane" -> "jane"
    [] c = "Doe" -> "doe"
    [] c = PS -> ps_lower
    [] OTHER -> c

\* str.lower
lower(s) == [i \in 1..Len(s) |-> lower_chunk(s[i])]

RECURSIVE lstrip(_)
lstrip(s) == IF s # <<>> /\ IsSpace(Head(s)) THEN lstrip(Tail(s)) ELSE s

RECURSIVE rstrip(_)
rstrip(s) ==
  IF s # <<>> /\ IsSpace(s[Len(s)]) THEN rstrip(SubSeq(s, 1, Len(s) - 1)) ELSE s

\* str.strip()
strip(s) == rstrip(lstrip(s))

RECURSIVE first_word(_)
first_word(s) ==
  IF s = <<>> \/ IsSpace(Head(s)) THEN <<>> ELSE <<Head(s)>> \o first_word(Tail(s))

\* str.split(): the whitespace-delimited words, in order
RECURSIVE split(_)
split(s) ==
  LET t == lstrip(s)
      w == first_word(t)
  IN IF t = <<>> THEN <<>> ELSE <<w>> \o split(SubSeq(t, Len(w) + 1, Len(t)))

\* bool(x) of a text cell: None and "" are falsy, nan and a non-empty str truthy
truthy(cell) ==
  CASE cell.kind = "None" -> FALSE
    [] cell.kind = "NaN" -> TRUE
    [] OTHER -> cell.s # <<>>

\* pd.notna(x)
notna(cell) == cell.kind = "str"

\* t occurs in s as a contiguous run
Contains(s, t) ==
  \E i \in 0..(Len(s) - Len(t)) : SubSeq(s, i + 1, i + Len(t)) = t

EndsWith(s, t) ==
  Len(s) >= Len(t) /\ SubSeq(s, Len(s) - Len(t) + 1, Len(s)) = t

-----------------------------------------------------------------------------
(* PersonalizedMessenger.generate_personalized_message *)

Columns == {"email", "name", "Job Title", "has_joined_event", "linkedin_flag"}

Returned(v) == [ok |-> TRUE, text |-> v, exc |-> "none"]

Raised(e) == [ok |-> FALSE, text |-> <<>>, exc |-> e]

\* a greeting that falls back to the email address for a nan name
greeting_name_or_email(r) ==
  IF ~truthy(r["name"]) THEN Returned(<<"there">>)
  ELSE IF r["name"].kind = "NaN"
       THEN IF "email" \in DOMAIN r THEN Returned(<<r["email"]>>) ELSE Raised("KeyError")
  ELSE IF split(r["name"].s) = <<>> THEN Raised("IndexError")
  ELSE Returned(split(r["name"].s)[1])

\* name = row['name'].split()[0] if row['name'] else "there"
greeting_name(r) ==
  IF ~truthy(r["name"]) THEN Returned(<<"there">>)
  ELSE IF r["name"].kind = "NaN" THEN Raised("AttributeError")
  ELSE IF split(r["name"].s) = <<>> THEN Raised("IndexError")
  ELSE Returned(split(r["name"].s)[1])

\* job_title = row['Job Title'] if pd.notna(...) and row['Job Title'].strip() else None
resolve_job_title(r) ==
  IF notna(r["Job Title"]) /\ strip(r["Job Title"].s) # <<>> THEN r["Job Title"] ELSE None

\* the test `job_title and job_title.lower() != 'unemployed'`
title_present(job_title) ==
  truthy(job_title) /\ job_title.kind = "str" /\ lower(job_title.s) # <<"unemployed">>

Celebrate == ":tada: Hey "

ThanksAsA == ", thanks for joining our session! As a "

EarlyAccess == ", we think you'll love our upcoming AI workflow tools. Want early access?"

ThanksGeneric == ", thanks for joining our session! We're excited to have had you participate and would love to keep you updated on our upcoming events and tools!"

Hi == "Hi "

MissedAsA == ", sorry we missed you at the last event! We're preparing another session that might better suit your interests as a "

HopeNext == ". Hope to see you next time!"

MissedGeneric == ", sorry we missed you at the last event! We're preparing another session with exciting content that we think you'll find valuable. Hope to see you next time!"

\* the four f-strings
base_message(name, job_title, has_joined) ==
  IF has_joined
  THEN IF title_present(job_title)
       THEN <<Celebrate>> \o name \o <<ThanksAsA>> \o lower(job_title.s) \o <<EarlyAccess>>
       ELSE <<Celebrate>> \o name \o <<ThanksGeneric>>
  ELSE IF title_present(job_title)
       THEN <<Hi>> \o name \o <<MissedAsA>> \o job_title.s \o <<HopeNext>>
       ELSE <<Hi>> \o name \o <<MissedGeneric>>

LinkedInSuffix == <<" ", PS>>

\* the suffix test with the flag read the wrong way round
add_linkedin_ps_inverted(message, has_linkedin) ==
  IF has_linkedin THEN message \o LinkedInSuffix ELSE message

\* if not has_linkedin: message += " P.S. ..."
add_linkedin_ps(message, has_linkedin) ==
  IF ~has_linkedin THEN message \o LinkedInSuffix ELSE message

generate_personalized_message(r) ==
  IF "name" \notin DOMAIN r THEN Raised("KeyError")
  ELSE IF ~greeting_name(r).ok THEN greeting_name(r)
  ELSE IF {"Job Title", "has_joined_event", "linkedin_flag"} \ DOMAIN r # {}
       THEN Raised("KeyError")
  ELSE LET name == greeting_name(r).text
           job_title == resolve_job_title(r)
           has_joined == r["has_joined_event"]
           has_linkedin == ~r["linkedin_flag"]
       IN Returned(add_linkedin_ps(base_message(name, job_title, has_joined), has_linkedin))

-----------------------------------------------------------------------------
(* Rows and data frames *)

MkRow(e, n, t, a, l) ==
  [c \in Columns |->
     CASE c = "email" -> e
       [] c = "name" -> n
       [] c = "Job Title" -> t
       [] c = "has_joined_event" -> a
       [] OTHER -> l]

\* a row of a frame whose header is h
Restrict(r, h) == [c \in h |-> r[c]]

NameChunks == {"Jane", "Doe", " "}

TitleChunks == {"Engineer", "Unemployed", "unemployed", " ", PS}

Names == {NaN, None} \cup {Str(s) : s \in SeqsUpTo(NameChunks, MaxNameLen)}

Titles == {NaN, None} \cup {Str(s) : s \in SeqsUpTo(TitleChunks, MaxTitleLen)}

\* the rows generate_personalized_message is applied to on its own
Contacts ==
  {MkRow("ana@x.org", n, t, a, l) : n \in Names, t \in Titles, a \in BOOLEAN, l \in BOOLEAN}

Emails == {"ana@x.org", "bo@x.org"}

\* the rows of the frames read from cleaned_output.csv
FrameRows ==
  {MkRow(e, n, Str(<<"Engineer">>), a, FALSE) :
     e \in Emails, n \in {NaN, Str(<<"Jane", " ", "Doe">>)}, a \in BOOLEAN}

Headers == {Columns, Columns \ {"email"}, Columns \ {"Job Title"}}

DataFrames ==
  {[i \in 1..Len(d) |-> Restrict(d[i], h)] : d \in SeqsUpTo(FrameRows, MaxContacts), h \in Headers}

NoRow == MkRow("ana@x.org", None, None, FALSE, FALSE)

-----------------------------------------------------------------------------
(* The outcome of the last operation *)

Outcome(op, ret, exc) ==
  [op |-> op, ret |-> ret, exc |-> exc, text |-> <<>>, items |-> <<>>,
   attempts |-> <<>>, sent |-> 0, failed |-> 0, summary |-> FALSE, network |-> <<>>,
   total |-> 0, opened |-> FALSE, quit |-> "none", dry |-> FALSE, credentials |-> FALSE]

Idle == Outcome("idle", "none", "none")

NoFile == [exists |-> FALSE, rows |-> <<>>]

NoAutomation == [state |-> "none", messages |-> <<>>]

NoQueue == [exists |-> FALSE, total_messages |-> 0, items |-> <<>>]

-----------------------------------------------------------------------------
(* PersonalizedMessenger *)

\* __init__: self.df = pd.read_csv(csv_file_path); self.messages = []
Construct ==
  /\ messenger = "none"
  /\ IF readable
     THEN /\ messenger' = "ready"
          /\ out' = Outcome("init", "none", "none")
     ELSE /\ messenger' = "none"
          /\ out' = Outcome("init", "none", "FileNotFoundError")
  /\ messages' = <<>>
  /\ UNCHANGED <<queue_file, df, readable, csv_file, automation, row>>

\* a call of generate_personalized_message on one row of the frame
GenerateCall(i) ==
  /\ messenger = "ready"
  /\ i \in 1..Len(df)
  /\ row' = df[i]
  /\ LET g == generate_personalized_message(df[i])
     IN out' = [Outcome("generate", IF g.ok THEN "text" ELSE "none", g.exc) EXCEPT !.text = g.text]
  /\ UNCHANGED <<queue_file, df, readable, messenger, messages, csv_file, automation>>

\* the dict appended for one row; its keys are read after the message is built
message_record(r) ==
  LET g == generate_personalized_message(r)
  IN IF ~g.ok THEN [ok |-> FALSE, exc |-> g.exc, rec |-> <<>>]
     ELSE IF {"email", "name", "has_joined_event", "Job Title"} \ DOMAIN r # {}
          THEN [ok |-> FALSE, exc |-> "KeyError", rec |-> <<>>]
     ELSE [ok |-> TRUE, exc |-> "none",
           rec |-> <<[email |-> r["email"], name |-> r["name"], message |-> g.text,
                      has_joined_event |-> r["has_joined_event"],
                      job_title |-> r["Job Title"]]>>]

\* the loop of generate_all_messages from row i on, acc the list so far:
\* an exception leaves self.messages as it is at that row
RECURSIVE iterrows(_, _, _)
iterrows(frame, i, acc) ==
  IF i > Len(frame) THEN [messages |-> acc, exc |-> "none"]
  ELSE LET m == message_record(frame[i])
       IN IF m.ok THEN iterrows(frame, i + 1, acc \o m.rec)
          ELSE [messages |-> acc, exc |-> m.exc]

\* self.messages = []; for index, row in self.df.iterrows(): ...
generate_all_messages(frame) == iterrows(frame, 1, <<>>)

GenerateAll ==
  /\ messenger = "ready"
  /\ LET g == generate_all_messages(df)
     IN /\ messages' = g.messages
        /\ out' = Outcome("generate_all", IF g.exc = "none" THEN "messages" ELSE "none", g.exc)
  /\ UNCHANGED <<queue_file, df, readable, messenger, csv_file, automation, row>>

\* `if not self.messages: self.generate_all_messages()` at the head of every
\* save and dispatch method
ensure_messages(msgs, frame) ==
  IF msgs = <<>> THEN generate_all_messages(frame) ELSE [messages |-> msgs, exc |-> "none"]

\* the rows save_messages_csv writes
csv_rows(msgs) == [i \in 1..Len(msgs) |-> [email |-> msgs[i].email, message |-> msgs[i].message]]

SaveMessagesCsv ==
  /\ messenger = "ready"
  /\ LET g == ensure_messages(messages, df)
     IN /\ messages' = g.messages
        /\ IF g.exc # "none"
           THEN /\ out' = Outcome("save_csv", "none", g.exc)
                /\ csv_file' = csv_file
           ELSE /\ out' = [Outcome("save_csv", "file", "none") EXCEPT !.items = csv_rows(g.messages)]
                /\ csv_file' = [exists |-> TRUE, rows |-> csv_rows(g.messages)]
  /\ UNCHANGED <<queue_file, df, readable, messenger, automation, row>>

\* "priority": "high" if msg['has_joined_event'] else "normal"
batch_priority(msg) == IF msg.has_joined_event THEN "high" ELSE "normal"

telegram_batch(msgs) ==
  [i \in 1..Len(msgs) |->
     [recipient_email |-> msgs[i].email, message_text |-> msgs[i].message,
      priority |-> batch_priority(msgs[i])]]

CreateTelegramBatch ==
  /\ messenger = "ready"
  /\ LET g == ensure_messages(messages, df)
     IN /\ messages' = g.messages
        /\ IF g.exc # "none"
           THEN out' = Outcome("telegram_batch", "none", g.exc)
           ELSE out' = [Outcome("telegram_batch", "file", "none") EXCEPT
                          !.items = telegram_batch(g.messages)]
  /\ UNCHANGED <<queue_file, df, readable, messenger, csv_file, automation, row>>

-----------------------------------------------------------------------------
(* SMTP delivery.  What the mail server does is the environment's choice:  *)
(* session  whether smtplib.SMTP(), starttls() and login() succeed,        *)
(* results  for each message, whether sendmail delivers ("ok"), raises and *)
(*          leaves the session open ("refused") or raises after the        *)
(*          connection was closed ("closed": a 421 reply, a dropped link), *)
(* quit_ok  whether quit() succeeds on an open session.                    *)
(* On a closed connection sendmail and quit raise SMTPServerDisconnected.  *)

SendResults == {"ok", "refused", "closed"}

Sessions == {"open", "refused"}

\* the server's answers to enumerate for a call: one per message when the
\* call reaches the delivery loop, and a single placeholder when it does not
ResultsFor(msgs, reaches_loop) ==
  IF reaches_loop THEN [1..Len(msgs) -> SendResults] ELSE {[i \in 1..Len(msgs) |-> "ok"]}

\* the for loop over self.messages around server.sendmail, from message i on;
\* every exception of one iteration is caught inside the loop
RECURSIVE deliver(_, _, _, _)
deliver(msgs, results, i, st) ==
  IF i > Len(msgs) THEN st
  ELSE LET r == IF st.connected THEN results[i] ELSE "closed"
       IN deliver(msgs, results, i + 1,
            [connected |-> st.connected /\ r # "closed",
             attempts |-> Append(st.attempts, [to |-> msgs[i].email, result |-> r]),
             sent |-> IF r = "ok" THEN st.sent + 1 ELSE st.sent,
             failed |-> IF r = "ok" THEN st.failed ELSE st.failed + 1])

Handshake == <<"connect", "starttls", "login">>

\* the try block shared by send_email_smtp and send_batch_emails:
\* open the session, deliver every message, quit; an exception outside the
\* loop goes to the outer except, which returns False
smtp_session(msgs, session, results, quit_ok) ==
  IF session # "open"
  THEN [opened |-> FALSE, completed |-> FALSE, attempts |-> <<>>, sent |-> 0, failed |-> 0,
        network |-> <<"connect">>, quit |-> "none"]
  ELSE LET d == deliver(msgs, results, 1,
                        [connected |-> TRUE, attempts |-> <<>>, sent |-> 0, failed |-> 0])
       IN [opened |-> TRUE, completed |-> d.connected /\ quit_ok, attempts |-> d.attempts,
           sent |-> d.sent, failed |-> d.failed,
           network |-> Handshake \o [i \in 1..Len(msgs) |-> "sendmail"] \o <<"quit">>,
           quit |-> IF ~d.connected THEN "disconnected"
                    ELSE IF quit_ok THEN "ok" ELSE "failed"]

Bool(b) == IF b THEN "True" ELSE "False"

\* the outcome of a call, with the arguments test_mode / dry_run and whether
\* sender_email and sender_password (or the environment) gave credentials
Called(outcome, dry, credentials) == [outcome EXCEPT !.dry = dry, !.credentials = credentials]

\* PersonalizedMessenger.send_email_smtp, after the messages are there
send_email_smtp(msgs, test_mode, credentials, session, results, quit_ok) ==
  IF test_mode THEN Outcome("send_email_smtp", "True", "none")
  ELSE IF ~credentials THEN Outcome("send_email_smtp", "False", "none")
  ELSE LET t == smtp_session(msgs, session, results, quit_ok)
       IN [Outcome("send_email_smtp", Bool(t.completed), "none") EXCEPT
             !.attempts = t.attempts, !.sent = t.sent, !.summary = t.completed,
             !.network = t.network, !.opened = t.opened, !.quit = t.quit]

SendEmailSmtp ==
  /\ messenger = "ready"
  /\ LET g == ensure_messages(messages, df)
     IN /\ messages' = g.messages
        /\ \E test_mode \in BOOLEAN, credentials \in BOOLEAN :
             IF g.exc # "none"
             THEN out' = Called(Outcome("send_email_smtp", "none", g.exc), test_mode, credentials)
             ELSE \E session \in Sessions :
                    \E results \in ResultsFor(g.messages,
                                              ~test_mode /\ credentials /\ session = "open"),
                       quit_ok \in BOOLEAN :
                      out' = Called(send_email_smtp(g.messages, test_mode, credentials, session,
                                                    results, quit_ok),
                                    test_mode, credentials)
  /\ UNCHANGED <<queue_file, df, readable, messenger, csv_file, automation, row>>

-----------------------------------------------------------------------------
(* EventAutomation, EmailAutomation, TelegramAutomation *)

\* load_messages: the records of personalized_messages.csv, [] when the file
\* is not there
load_messages(file) == IF file.exists THEN file.rows ELSE <<>>

\* __init__: self.df = pd.read_csv(csv_file_path); self.load_messages().
\* A file written from an empty list has no header: reading it either gives
\* no records or raises EmptyDataError, which load_messages does not catch.
AutomationInit ==
  /\ IF ~readable
     THEN /\ automation' = NoAutomation
          /\ out' = Outcome("automation_init", "none", "FileNotFoundError")
     ELSE \/ /\ automation' = [state |-> "ready", messages |-> load_messages(csv_file)]
             /\ out' = Outcome("automation_init", "none", "none")
          \/ /\ csv_file.exists /\ csv_file.rows = <<>>
             /\ automation' = NoAutomation
             /\ out' = Outcome("automation_init", "none", "EmptyDataError")
  /\ UNCHANGED <<queue_file, df, readable, messenger, messages, csv_file, row>>

\* validate_email_setup: a session of its own, opened and quit
validate_network(validate_ok) ==
  IF validate_ok THEN Handshake \o <<"quit">> ELSE <<"connect">>

\* send_batch_emails with the connection test moved ahead of the dry-run branch
send_batch_emails_validate_first(msgs, dry_run, credentials, validate_ok, session, results, quit_ok) ==
  IF msgs = <<>> THEN Outcome("send_batch_emails", "False", "none")
  ELSE IF ~credentials THEN Outcome("send_batch_emails", "False", "none")
  ELSE IF ~validate_ok
       THEN [Outcome("send_batch_emails", "False", "none") EXCEPT
               !.network = validate_network(FALSE)]
  ELSE IF dry_run
       THEN [Outcome("send_batch_emails", "True", "none") EXCEPT
               !.network = validate_network(TRUE)]
  ELSE LET t == smtp_session(msgs, session, results, quit_ok)
       IN [Outcome("send_batch_emails",
                   IF t.completed THEN Bool(t.sent > 0) ELSE "False", "none") EXCEPT
             !.attempts = t.attempts, !.sent = t.sent, !.failed = t.failed,
             !.summary = t.completed,
             !.network = validate_network(TRUE) \o t.network,
             !.opened = t.opened, !.quit = t.quit]

\* EmailAutomation.send_batch_emails
send_batch_emails(msgs, dry_run, credentials, validate_ok, session, results, quit_ok) ==
  IF msgs = <<>> THEN Outcome("send_batch_emails", "False", "none")
  ELSE IF dry_run THEN Outcome("send_batch_emails", "True", "none")
  ELSE IF ~credentials THEN Outcome("send_batch_emails", "False", "none")
  ELSE IF ~validate_ok
       THEN [Outcome("send_batch_emails", "False", "none") EXCEPT
               !.network = validate_network(FALSE)]
  ELSE LET t == smtp_session(msgs, session, results, quit_ok)
       IN [Outcome("send_batch_emails",
                   IF t.completed THEN Bool(t.sent > 0) ELSE "False", "none") EXCEPT
             !.attempts = t.attempts, !.sent = t.sent, !.failed = t.failed,
             !.summary = t.completed,
             !.network = validate_network(TRUE) \o t.network,
             !.opened = t.opened, !.quit = t.quit]

SendBatchEmails ==
  /\ automation.state = "ready"
  /\ \E dry_run \in BOOLEAN, credentials \in BOOLEAN, validate_ok \in BOOLEAN,
        session \in Sessions :
       \E results \in ResultsFor(automation.messages,
                                 ~dry_run /\ credentials /\ validate_ok /\ session = "open"),
          quit_ok \in BOOLEAN :
         out' = Called(send_batch_emails(automation.messages, dry_run, credentials,
                                         validate_ok, session, results, quit_ok),
                       dry_run, credentials)
  /\ UNCHANGED <<queue_file, df, readable, messenger, messages, csv_file, automation, row>>

\* self.df[self.df['email'] == msg['email']]: the rows with that email, in order
RECURSIVE rows_with_email(_, _)
rows_with_email(frame, email) ==
  IF frame = <<>> THEN <<>>
  ELSE (IF Head(frame)["email"] = email THEN <<Head(frame)>> ELSE <<>>)
         \o rows_with_email(Tail(frame), email)

max_retries == 3

\* the lookup without its filter: user_data = self.df.iloc[0]
queue_item_first_row(frame, msgs, i) ==
  LET user_data == frame[1]
      joined == user_data["has_joined_event"]
  IN [id |-> i, recipient_email |-> msgs[i].email, message_text |-> msgs[i].message,
      priority |-> IF joined THEN "high" ELSE "normal",
      scheduled_delay_minutes |-> IF joined THEN 0 ELSE 30,
      retry_count |-> 0, max_retries |-> max_retries, status |-> "pending"]

\* the priority and delay of one message: user_data = (...).iloc[0]
queue_item(frame, msgs, i) ==
  LET user_data == rows_with_email(frame, msgs[i].email)[1]
      joined == user_data["has_joined_event"]
  IN [id |-> i, recipient_email |-> msgs[i].email, message_text |-> msgs[i].message,
      priority |-> IF joined THEN "high" ELSE "normal",
      scheduled_delay_minutes |-> IF joined THEN 0 ELSE 30,
      retry_count |-> 0, max_retries |-> max_retries, status |-> "pending"]

\* create_message_queue with total_messages taken from the frame
create_message_queue_frame_total(frame, msgs) ==
  IF msgs = <<>> THEN Outcome("create_message_queue", "False", "none")
  ELSE IF \E i \in 1..Len(frame) : "email" \notin DOMAIN frame[i]
       THEN Outcome("create_message_queue", "none", "KeyError")
  ELSE IF \E i \in 1..Len(msgs) : rows_with_email(frame, msgs[i].email) = <<>>
       THEN Outcome("create_message_queue", "none", "IndexError")
  ELSE [Outcome("create_message_queue", "file", "none") EXCEPT
          !.items = [i \in 1..Len(msgs) |-> queue_item(frame, msgs, i)],
          !.total = Len(frame)]

\* TelegramAutomation.create_message_queue
create_message_queue(frame, msgs) ==
  IF msgs = <<>> THEN Outcome("create_message_queue", "False", "none")
  ELSE IF \E i \in 1..Len(frame) : "email" \notin DOMAIN frame[i]
       THEN Outcome("create_message_queue", "none", "KeyError")
  ELSE IF \E i \in 1..Len(msgs) : rows_with_email(frame, msgs[i].email) = <<>>
       THEN Outcome("create_message_queue", "none", "IndexError")
  ELSE [Outcome("create_message_queue", "file", "none") EXCEPT
          !.items = [i \in 1..Len(msgs) |-> queue_item(frame, msgs, i)],
          !.total = Len(msgs)]

\* the json.dump of the queue, reached only when every item was built
CreateMessageQueue ==
  /\ automation.state = "ready"
  /\ LET q == create_message_queue(df, automation.messages)
     IN /\ out' = q
        /\ queue_file' = IF q.ret = "file"
                         THEN [exists |-> TRUE, total_messages |-> q.total, items |-> q.items]
                         ELSE queue_file
  /\ UNCHANGED <<df, readable, messenger, messages, csv_file, automation, row>>

\* TelegramAutomation.simulate_telegram_sending: groups the messages by the
\* attendance of the row with their email and prints them; writes nothing
simulate_telegram_sending(frame, msgs) ==
  IF msgs = <<>> THEN Outcome("simulate_telegram_sending", "False", "none")
  ELSE IF \E i \in 1..Len(frame) : "email" \notin DOMAIN frame[i]
       THEN Outcome("simulate_telegram_sending", "none", "KeyError")
  ELSE IF \E i \in 1..Len(msgs) : rows_with_email(frame, msgs[i].email) = <<>>
       THEN Outcome("simulate_telegram_sending", "none", "IndexError")
  ELSE [Outcome("simulate_telegram_sending", "True", "none") EXCEPT
          !.sent = Cardinality({i \in 1..Len(msgs) :
                     rows_with_email(frame, msgs[i].email)[1]["has_joined_event"]}),
          !.total = Len(msgs)]

SimulateTelegramSending ==
  /\ automation.state = "ready"
  /\ out' = simulate_telegram_sending(df, automation.messages)
  /\ UNCHANGED <<queue_file, df, readable, messenger, messages, csv_file, automation, row>>

-----------------------------------------------------------------------------
(* Specifications *)

Init ==
  /\ df \in DataFrames
  /\ readable \in BOOLEAN
  /\ messenger = "none"
  /\ messages = <<>>
  /\ csv_file = NoFile
  /\ automation = NoAutomation
  /\ row = NoRow
  /\ out = Idle
  /\ queue_file = NoQueue

Next ==
  \/ Construct
  \/ \E i \in 1..MaxContacts : GenerateCall(i)
  \/ GenerateAll
  \/ SaveMessagesCsv
  \/ CreateTelegramBatch
  \/ AutomationInit
  \/ CreateMessageQueue
  \/ SimulateTelegramSending

Spec == Init /\ [][Next]_vars

\* the frames of the mail runs: every row generates, the emails vary
MailFrames ==
  SeqsUpTo({MkRow(e, Str(<<"Jane", " ", "Doe">>), Str(<<"Engineer">>), a, FALSE) :
              e \in Emails, a \in BOOLEAN}, MaxContacts)

\* the email dispatchers, on the messages of a readable, well-formed frame
InitMail ==
  /\ df \in MailFrames
  /\ readable = TRUE
  /\ messenger = "none"
  /\ messages = <<>>
  /\ csv_file = NoFile
  /\ automation = NoAutomation
  /\ row = NoRow
  /\ out = Idle
  /\ queue_file = NoQueue

NextMail ==
  \/ Construct
  \/ SaveMessagesCsv
  \/ AutomationInit
  \/ SendEmailSmtp
  \/ SendBatchEmails

SpecMail == InitMail /\ [][NextMail]_vars

\* generate_personalized_message applied to one row on its own
InitGen ==
  /\ df = <<>>
  /\ readable = TRUE
  /\ messenger = "ready"
  /\ messages = <<>>
  /\ csv_file = NoFile
  /\ automation = NoAutomation
  /\ row \in Contacts
  /\ out = Idle
  /\ queue_file = NoQueue

GenerateRow ==
  /\ out.op = "idle"
  /\ LET g == generate_personalized_message(row)
     IN out' = [Outcome("generate", IF g.ok THEN "text" ELSE "none", g.exc) EXCEPT !.text = g.text]
  /\ UNCHANGED <<queue_file, df, readable, messenger, messages, csv_file, automation, row>>

NextGen == GenerateRow

SpecGen == InitGen /\ [][NextGen]_vars

-----------------------------------------------------------------------------
(* Properties of generate_personalized_message, checked under SpecGen *)

Generated == out.op = "generate"

WithCell(r, c, v) == [r EXCEPT ![c] = v]

\* a title the specification treats as absent: null, blank, or "unemployed"
\* in any casing once trimmed
stated_absent(t) ==
  \/ t.kind # "str"
  \/ strip(t.s) = <<>>
  \/ lower(strip(t.s)) = <<"unemployed">>

\* the greeting the specification states: the first token, "there" for an
\* empty or missing name
stated_greeting(n) ==
  IF n.kind = "str" /\ n.s # <<>> THEN split(n.s)[1] ELSE <<"there">>

\* the name has a first token, or is empty or missing
NameCovered(n) == n.kind = "str" /\ n.s # <<>> => split(n.s) # <<>>

\* C1: generate returns for every contact, with a non-empty text; stated as:
\* after a call the outcome is a returned text and the text is not empty.
C1_GenerateTotal == Generated => out.exc = "none" /\ out.text # <<>>

\* C2: a title that is null, blank or "unemployed" (any casing, any
\* surrounding whitespace) gives the outcome the same contact has with
\* job_title None; any other title is treated as present (the text names it).
C2_SentinelIsAbsent ==
  Generated =>
    LET t == row["Job Title"]
        g == generate_personalized_message(WithCell(row, "Job Title", None))
    IN IF stated_absent(t)
       THEN out.exc = g.exc /\ out.text = g.text
       ELSE out.exc = "none" =>
              Contains(out.text, IF row["has_joined_event"] THEN lower(t.s) ELSE t.s)

\* the base template the specification states for a contact
stated_base(r) ==
  LET n == stated_greeting(r["name"])
      t == r["Job Title"]
  IN IF r["has_joined_event"]
     THEN IF ~stated_absent(t)
          THEN <<Celebrate>> \o n \o <<ThanksAsA>> \o lower(t.s) \o <<EarlyAccess>>
          ELSE <<Celebrate>> \o n \o <<ThanksGeneric>>
     ELSE IF ~stated_absent(t)
          THEN <<Hi>> \o n \o <<MissedAsA>> \o t.s \o <<HopeNext>>
          ELSE <<Hi>> \o n \o <<MissedGeneric>>

\* C3: every contact gets exactly the one of the four base templates that
\* (attended, effective title present) selects: its text is that template,
\* followed by nothing or by the networking sentence.
C3_TemplateTable ==
  Generated /\ NameCovered(row["name"]) =>
    /\ out.exc = "none"
    /\ out.text \in {stated_base(row), stated_base(row) \o LinkedInSuffix}

\* C4: the greeting is the first whitespace-delimited token of the name,
\* and "there" when the name is empty or missing.
C4_GreetingName ==
  Generated /\ NameCovered(row["name"]) =>
    LET n == stated_greeting(row["name"])
    IN /\ out.exc = "none"
       /\ SubSeq(out.text, 2, 1 + Len(n)) = n
       /\ out.text[2 + Len(n)] \in {ThanksAsA, ThanksGeneric, MissedAsA, MissedGeneric}

\* the outcome for the same contact with the profile flag the other way
OtherFlag == generate_personalized_message(WithCell(row, "linkedin_flag", ~row["linkedin_flag"]))

\* C5 as stated: the text with profile_incomplete true is the text with it
\* false followed by the networking sentence, and the text with it false
\* does not contain that sentence.
C5_SuffixNowhereElse ==
  Generated =>
    /\ out.exc = OtherFlag.exc
    /\ out.exc = "none" =>
         IF row["linkedin_flag"]
         THEN out.text = OtherFlag.text \o LinkedInSuffix /\ ~Contains(OtherFlag.text, LinkedInSuffix)
         ELSE OtherFlag.text = out.text \o LinkedInSuffix /\ ~Contains(out.text, LinkedInSuffix)

\* C5 amended: the text with profile_incomplete true is the text with it
\* false followed by the networking sentence, whichever template was chosen
\* (and the call raises with the one flag exactly when it raises with the
\* other); the text with it false does not end with that sentence.
C5_SuffixAppended ==
  Generated =>
    /\ out.exc = OtherFlag.exc
    /\ out.exc = "none" =>
         IF row["linkedin_flag"]
         THEN out.text = OtherFlag.text \o LinkedInSuffix /\ ~EndsWith(OtherFlag.text, LinkedInSuffix)
         ELSE OtherFlag.text = out.text \o LinkedInSuffix /\ ~EndsWith(out.text, LinkedInSuffix)

C5_Witness ==
  /\ Generated
  /\ out.exc = "none"
  /\ row["linkedin_flag"]
  /\ row["has_joined_event"]
  /\ row["name"] = Str(<<"Jane", " ", "Doe">>)
  /\ row["Job Title"] = Str(<<"Engineer">>)
  /\ out.text = <<Celebrate, "Jane", ThanksAsA, "engineer", EarlyAccess, " ", PS>>

-----------------------------------------------------------------------------
(* Properties of the messenger and the queue, checked under Spec *)

WellFormed == \A i \in 1..Len(df) : DOMAIN df[i] = Columns

\* C6: generate_all_messages on a well-formed frame of N contacts yields N
\* records in order, the i-th with the i-th contact's email, attendance flag
\* and generated text, however often it is called.
C6_OneRecordPerContact ==
  out.op = "generate_all" /\ WellFormed =>
    /\ out.exc = "none"
    /\ Len(messages) = Len(df)
    /\ \A i \in 1..Len(df) :
         /\ i <= Len(messages)
         /\ messages[i].email = df[i]["email"]
         /\ messages[i].has_joined_event = df[i]["has_joined_event"]
         /\ messages[i].message = generate_personalized_message(df[i]).text

\* the two rows agree on name, job title, attended and profile flag
SameFields(r1, r2) ==
  /\ DOMAIN r1 = Columns
  /\ DOMAIN r2 = Columns
  /\ \A c \in Columns \ {"email"} : r1[c] = r2[c]

\* C7: a call of generate gives what every earlier call and every earlier
\* generate_all_messages run gave for a contact with the same name, job
\* title, attended flag and profile flag, whatever ran in between.
C7_GenerateStateless ==
  [][out'.op = "generate" =>
       /\ \A j \in 1..Len(messages') :
            SameFields(row', df[j]) =>
              out'.exc = "none" /\ out'.text = messages'[j].message
       /\ out.op = "generate" /\ SameFields(row, row') =>
            out'.exc = out.exc /\ out'.text = out.text]_vars

C7_Witness ==
  /\ out.op = "generate"
  /\ out.exc = "none"
  /\ \E j \in 1..Len(messages) :
       /\ SameFields(row, df[j])
       /\ df[j]["email"] # row["email"]
       /\ messages[j].message = out.text

\* C9: the message list, the saved file and every emitted batch hold
\* messages for all the contacts or for none, never for a proper prefix.
C9_NeverPartial ==
  /\ Len(messages) \in {0, Len(df)}
  /\ csv_file.exists => Len(csv_file.rows) = Len(df)
  /\ out.op \in {"save_csv", "telegram_batch"} /\ out.ret = "file" => Len(out.items) = Len(df)

Priority(attended) == IF attended THEN "high" ELSE "normal"

\* the items of a batch or queue, one per message in order, each with the
\* priority of the contact its message was generated for
PrioritiesFollowAttendance(msgs) ==
  /\ Len(out.items) = Len(msgs)
  /\ \A i \in 1..Len(msgs) :
       /\ out.items[i].recipient_email = msgs[i].email
       /\ out.items[i].message_text = msgs[i].message
       /\ out.items[i].priority = Priority(df[i]["has_joined_event"])

\* C10 as stated: every item create_telegram_batch and create_message_queue
\* emit has priority "high" if the contact of its message attended and
\* "normal" otherwise.
C10_PriorityOfContact ==
  /\ out.op = "telegram_batch" /\ out.ret = "file" => PrioritiesFollowAttendance(messages)
  /\ out.op = "create_message_queue" /\ out.ret = "file" =>
       PrioritiesFollowAttendance(automation.messages)

UniqueEmails ==
  \A i, j \in 1..Len(df) : i # j => df[i]["email"] # df[j]["email"]

\* C10 amended: the same, for create_message_queue provided no two contacts
\* of the frame share an email address.
C10_PriorityOfUniqueContact ==
  /\ out.op = "telegram_batch" /\ out.ret = "file" => PrioritiesFollowAttendance(messages)
  /\ out.op = "create_message_queue" /\ out.ret = "file" /\ UniqueEmails =>
       PrioritiesFollowAttendance(automation.messages)

C10_Witness ==
  /\ out.op = "create_message_queue"
  /\ out.ret = "file"
  /\ UniqueEmails
  /\ Len(out.items) = 2
  /\ out.items[1].priority = "normal"
  /\ out.items[2].priority = "high"
  /\ ~df[1]["has_joined_event"]
  /\ df[2]["has_joined_event"]

-----------------------------------------------------------------------------
(* Properties of the email dispatchers, checked under SpecMail *)

Recipients(msgs) == [i \in 1..Len(msgs) |-> msgs[i].email]

\* C8: in a live run whose session opened, and whose quit did not fail on a
\* connection that was still open, every message is attempted once in input
\* order, each attempt counts as one success or one failure, and the summary
\* is reached.
C8_BatchSurvivesFailures ==
  /\ out.op = "send_batch_emails" /\ out.opened /\ out.quit # "failed" =>
       /\ [i \in 1..Len(out.attempts) |-> out.attempts[i].to] = Recipients(automation.messages)
       /\ out.sent + out.failed = Len(automation.messages)
       /\ out.summary
  /\ out.op = "send_email_smtp" /\ out.opened /\ out.quit # "failed" =>
       /\ [i \in 1..Len(out.attempts) |-> out.attempts[i].to] = Recipients(messages)
       /\ out.sent = Cardinality({i \in 1..Len(out.attempts) : out.attempts[i].result = "ok"})
       /\ out.summary

\* the call just made was a dry run of op
DryRunOf(op) == out'.op = op /\ out'.dry

\* the call just made opened no connection, logged in nowhere and sent nothing
NoNetworkAction == out'.network = <<>> /\ out'.attempts = <<>> /\ ~out'.opened

\* C11 as stated: a dry run (send_batch_emails with dry_run, send_email_smtp
\* with test_mode) performs no network action, with or without credentials,
\* leaves the message list unchanged, and reports success whenever there is
\* at least one message.
C11_DryRunChangesNothing ==
  [][/\ DryRunOf("send_batch_emails") =>
          /\ NoNetworkAction
          /\ automation'.messages = automation.messages
          /\ automation.messages # <<>> => out'.ret = "True"
     /\ DryRunOf("send_email_smtp") =>
          /\ NoNetworkAction
          /\ messages' = messages
          /\ messages # <<>> => out'.ret = "True"]_vars

\* C11 amended: the same, except that send_email_smtp leaves the message
\* list unchanged only when the list is not empty (an empty list is first
\* filled by generate_all_messages, in test mode too).
C11_DryRunNoNetwork ==
  [][/\ DryRunOf("send_batch_emails") =>
          /\ NoNetworkAction
          /\ automation'.messages = automation.messages
          /\ automation.messages # <<>> => out'.ret = "True"
     /\ DryRunOf("send_email_smtp") =>
          /\ NoNetworkAction
          /\ messages # <<>> => messages' = messages /\ out'.ret = "True"]_vars

C11_Witness ==
  /\ out.op = "send_batch_emails"
  /\ out.dry
  /\ out.credentials
  /\ Len(automation.messages) = 2
  /\ out.ret = "True"
  /\ out.network = <<>>

-----------------------------------------------------------------------------
(* Properties of the queue artifact, checked under Spec *)

\* every item of telegram_queue.json is as create_message_queue initialises it
QueueAsCreated ==
  queue_file.exists =>
    /\ Len(queue_file.items) = queue_file.total_messages
    /\ \A i \in 1..Len(queue_file.items) :
         /\ queue_file.items[i].retry_count = 0
         /\ queue_file.items[i].max_retries = 3
         /\ queue_file.items[i].retry_count <= queue_file.items[i].max_retries
         /\ queue_file.items[i].status = "pending"

\* C12: after every operation, every item of the queue artifact has
\* retry_count 0, max_retries 3 and status "pending", and the number of items
\* is the recorded total_messages; an artifact that exists is changed by no
\* operation other than create_message_queue writing it anew.
C12_QueueItemsPending ==
  [][/\ QueueAsCreated'
     /\ queue_file.exists /\ out'.op # "create_message_queue" => queue_file' = queue_file]_vars

C12_Witness ==
  /\ queue_file.exists
  /\ queue_file.total_messages = 2
  /\ Len(queue_file.items) = 2
  /\ out.op = "simulate_telegram_sending"
  /\ out.ret = "True"

====
